---- MODULE Spec2Model ----
(***************************************************************************)
(* Model of the `run` command of clockify-auto-fill (commands/run.ts) and  *)
(* of the services it drives: ClockifyService (services/clockify.ts),      *)
(* PersistenceService (services/persistence.ts), JiraService               *)
(* (services/jira.ts), BusinessDayService (utils/businessDay.ts) and the   *)
(* date helpers (utils/dateUtils.ts).                                      *)
(*                                                                         *)
(* Dates are day ordinals (0, 1, 2, ...) of a calendar whose weeks have 7  *)
(* days (ordinal 0 is a Sunday) and whose months have DaysPerMonth days.   *)
(* Wall-clock times "HH:mm" are pairs <<hour, minute>>; instants are       *)
(* minutes since the start of day 0.  All clock reads of one run return    *)
(* the same calendar day `today`.                                          *)
(*                                                                         *)
(* An async function runs without interruption up to its next await of a   *)
(* network or database call (JavaScript run-to-completion), so one action  *)
(* is the code between two such awaits; the tasks of a Promise.all batch   *)
(* interleave at these points only.                                        *)
(***************************************************************************)
EXTENDS Integers, Sequences, FiniteSets, TLC

\* ------------------------------------------------------------------ bounds
DaysPerMonth == 3
    \* days in a month of the model's calendar
MaxFaults == 2
    \* errors the environment injects in one behaviour
CHECK_BATCH_SIZE == 2
    \* run.ts: const CHECK_BATCH_SIZE = 10, scaled to the model's window
BATCH_SIZE == 2
    \* run.ts: const BATCH_SIZE = 5, scaled to the model's window
MaxTaskId == 4
    \* the largest row id table tasks hands out in a sequence of direct calls

\* ---------------------------------------------------------------- calendar
MinutesPerDay == 24 * 60

FirstToday == DaysPerMonth
LastToday == 2 * DaysPerMonth
TodayRange == FirstToday .. LastToday
Days == 0 .. LastToday

\* dayjs(date).day(): 0 = Sunday ... 6 = Saturday
DayOfWeek(date) == date % 7

isWeekday(date) == DayOfWeek(date) >= 1 /\ DayOfWeek(date) <= 5

startOfMonth(date) == (date \div DaysPerMonth) * DaysPerMonth
endOfMonth(date) == startOfMonth(date) + DaysPerMonth - 1
startOfPreviousMonth(date) == startOfMonth(date) - DaysPerMonth

getDateRangeThroughNext(startDate, endDate) ==
    [i \in 1 .. (IF endDate >= startDate THEN endDate - startDate + 2 ELSE 0)
        |-> startDate + i - 1]

\* getDateRange(startDate, endDate): every day from startDate to endDate
getDateRange(startDate, endDate) ==
    [i \in 1 .. (IF endDate >= startDate THEN endDate - startDate + 1 ELSE 0)
        |-> startDate + i - 1]

RECURSIVE lastWeekdayFrom(_)
lastWeekdayFrom(date) ==
    IF isWeekday(date) THEN date ELSE lastWeekdayFrom(date - 1)

isLastBusinessDayOfMonth(date) == date = lastWeekdayFrom(endOfMonth(date))

\* ---------------------------------------------------------------- holidays
\* the holiday calendars of the model: none, the last weekday of the current
\* month a holiday, and every weekday of the first month a holiday
HolidaySets ==
    {{}, {lastWeekdayFrom(endOfMonth(FirstToday))}, 1 .. (DaysPerMonth - 1)}

\* HolidayService.getHolidayName: the holiday's name, or "" for null
getHolidayName(hol, date) == IF date \in hol THEN "Holiday" ELSE ""

\* BusinessDayService.getSkipReason: "" stands for null
getSkipReason(hol, date) ==
    IF ~isWeekday(date) THEN "Weekend"
    ELSE IF getHolidayName(hol, date) # "" THEN "Holiday: Holiday"
    ELSE ""

shouldSkipDate(hol, date) ==
    [skip |-> getSkipReason(hol, date) # "", reason |-> getSkipReason(hol, date)]


\* ----------------------------------------------------------- configuration
Unset == <<>>
    \* an option that is absent from the configuration ("HH:mm" otherwise)

EmptyConfig ==
    [clockify |-> FALSE, jira |-> FALSE, reportDir |-> FALSE,
     defaultStartTime |-> Unset, defaultEndTime |-> Unset]

\* clockify: clockifyApiKey, workspaceId and projectId are all set;
\* jira: jiraBaseUrl, jiraEmail and jiraApiKey are all set
Complete == [EmptyConfig EXCEPT !.clockify = TRUE]

Configs ==
    {EmptyConfig, Complete,
     [Complete EXCEPT !.jira = TRUE],
     [Complete EXCEPT !.reportDir = TRUE],
     [Complete EXCEPT !.defaultStartTime = <<18, 0>>]}

ConfigFiles ==
    {[readable |-> FALSE, content |-> EmptyConfig]}
        \cup {[readable |-> TRUE, content |-> c] : c \in Configs}

\* loadConfig: any error while reading is caught and yields the empty config
loadConfig(file) == IF file.readable THEN file.content ELSE EmptyConfig

\* ------------------------------------------------------------ local ledger
NoTask ==
    [id |-> 0, startDate |-> 0 - 1, project |-> "", description |-> "",
     endDate |-> 0 - 1]

TaskBefore(a, b) ==
    a.startDate < b.startDate \/ (a.startDate = b.startDate /\ a.id < b.id)

\* SELECT ... FROM tasks ORDER BY start_date ASC
RECURSIVE SortedTasks(_)
SortedTasks(rows) ==
    IF rows = {} THEN <<>>
    ELSE LET first == CHOOSE r \in rows : \A o \in rows \ {r} : TaskBefore(r, o)
         IN  <<first>> \o SortedTasks(rows \ {first})

calculateEndDatesToNextStart(sortedTasks, now) ==
    [index \in 1 .. Len(sortedTasks) |->
        [id |-> sortedTasks[index].id,
         startDate |-> sortedTasks[index].startDate,
         project |-> sortedTasks[index].project,
         description |-> sortedTasks[index].description,
         endDate |-> IF index < Len(sortedTasks)
                     THEN sortedTasks[index + 1].startDate
                     ELSE now]]

\* PersistenceService.calculateEndDates
calculateEndDates(sortedTasks, now) ==
    [index \in 1 .. Len(sortedTasks) |->
        [id |-> sortedTasks[index].id,
         startDate |-> sortedTasks[index].startDate,
         project |-> sortedTasks[index].project,
         description |-> sortedTasks[index].description,
         endDate |-> IF index < Len(sortedTasks)
                     THEN sortedTasks[index + 1].startDate - 1
                     ELSE now]]

\* PersistenceService.getTasks
getTasks(rows, now) == calculateEndDates(SortedTasks(rows), now)

TaskCovers(task, date) ==
    \/ date = task.startDate
    \/ (date > task.startDate /\ date < task.endDate)
    \/ date = task.endDate

\* PersistenceService.getTaskForDate: allTasks.find(...) || null
getTaskForDate(rows, date, now) ==
    LET allTasks == getTasks(rows, now)
        hits == {i \in 1 .. Len(allTasks) : TaskCovers(allTasks[i], date)}
    IN  IF hits = {} THEN NoTask
        ELSE allTasks[CHOOSE i \in hits : \A j \in hits : i <= j]

\* ---------------------------------------------------------- remote service
\* ClockifyService.parseTime and the dayjs(date).hour(h).minute(m) instant
parseTime(timeStr) == [hour |-> timeStr[1], minute |-> timeStr[2]]

InstantOf(date, timeStr) ==
    date * MinutesPerDay + parseTime(timeStr).hour * 60 + parseTime(timeStr).minute

DefaultStart == <<9, 0>>
DefaultEnd == <<17, 0>>

\* ClockifyService constructor: config.defaultStartTime || '09:00'
defaultStartTime(config) ==
    IF config.defaultStartTime = Unset THEN DefaultStart ELSE config.defaultStartTime

defaultEndTime(config) ==
    IF config.defaultEndTime = Unset THEN DefaultEnd ELSE config.defaultEndTime

\* ClockifyService.createTimeEntry(date, description)
createTimeEntry(config, date, description) ==
    [description |-> description,
     start |-> InstantOf(date, defaultStartTime(config)),
     end |-> InstantOf(date, defaultEndTime(config)),
     billable |-> FALSE]

\* GET .../time-entries?start=startOfDay&end=endOfDay
EntriesForDate(entries, date) ==
    {e \in entries : e.start >= date * MinutesPerDay
                     /\ e.start <= date * MinutesPerDay + MinutesPerDay - 1}


\* ------------------------------------------------------------------- state
VARIABLES
    today,          \* the calendar day of the clock
    holidays,       \* the days the holiday calendar reports
    configFile,     \* ~/.clockify-auto-cli/config.json
    tasks,          \* table tasks: rows [id, startDate, project, description]
    nextTaskId,     \* AUTOINCREMENT of table tasks
    timeEntries,    \* table time_entries
    remote,         \* the entries held by the time-tracking service
    userId,         \* ClockifyService.userId, 0 for null
    pc,             \* position of the run command
    exitCode,       \* process exit code, -1 while the run has not ended
    config,         \* the loaded configuration
    datesToCheck,   \* fillMissingEntries: the eligible dates
    batchIndex,     \* index of the current batch (check or creation phase)
    chk,            \* state of each existence check of the current batch
    entryResults,   \* fillMissingEntries: [date, hasEntry] per checked date
    missingDates,   \* fillMissingEntries: the dates without a remote entry
    jiraTaskTitle,  \* fillMissingEntries: pre-fetched title, "" for null
    crt,            \* state of each creation task of the current batch
    addedCount,     \* fillMissingEntries: entries created
    cur,            \* processCurrentDay: its locals
    faults,         \* errors injected so far
    runs,           \* invocations of the run command so far
    obs,            \* observations of the run (history)
    call            \* the last direct call of a service method: its arguments,
                    \* the ledger before it and its result (no run changes it)

inputs == <<today, holidays, configFile, call>>
ledger == <<tasks, nextTaskId, timeEntries>>
fill == <<datesToCheck, batchIndex, chk, entryResults, missingDates,
          jiraTaskTitle, crt, addedCount>>
vars == <<inputs, ledger, remote, userId, pc, exitCode, config, fill, cur,
          faults, runs, obs>>

Min(a, b) == IF a < b THEN a ELSE b
Range(seq) == {seq[i] : i \in DOMAIN seq}
NoTasks == [d \in {} |-> ""]

NumBatchesOne(list, size) == IF Len(list) > 0 THEN 1 ELSE 0

BatchOfRest(list, index, size) == SubSeq(list, index * size + 1, Len(list))

\* for (let i = 0; i < list.length; i += size) batches.push(list.slice(i, i + size))
NumBatches(list, size) == (Len(list) + size - 1) \div size
BatchOf(list, index, size) ==
    SubSeq(list, index * size + 1, Min(Len(list), (index + 1) * size))

NetErrors == {"transient", "auth"}
    \* auth: HTTP 401; transient: any other failure (5xx, 4xx, timeout)
UserIdValue == 1

NoCur == [description |-> "", existing |-> 0, clockifyId |-> 0, inCatch |-> FALSE]

NoObs ==
    [userRequests |-> 0, userWrites |-> 0,
     posts |-> [d \in Days |-> 0], checks |-> [d \in Days |-> 0],
     checkFailed |-> {}, checkedFalse |-> {}, errored |-> {}, failed |-> {},
     authSeen |-> FALSE, afterAuth |-> FALSE,
     storageErr |-> FALSE, invalidPost |-> FALSE,
     jiraLookups |-> 0, jira |-> "none", covering |-> "", todayDescription |-> "",
     report |-> FALSE, summary |-> FALSE, skipped |-> FALSE,
     fillDone |-> FALSE, prevFill |-> FALSE,
     gapsDone |-> FALSE, prefetch |-> "none", createOk |-> {}]

ObsErr(o, kind) ==
    [o EXCEPT !.authSeen = @ \/ kind = "auth",
              !.storageErr = @ \/ kind = "storage"]

TaskSets ==
    {{}, {[id |-> 1, startDate |-> 0, project |-> "P", description |-> "A"]},
     {[id |-> 1, startDate |-> FirstToday, project |-> "P", description |-> "B"]}}
RemoteDays == {2, 5}
\* no service method has been called directly
NoCall == [op |-> "", date |-> 0, data |-> "", pre |-> {}, result |-> 0]

PreEntry(date) ==
    [id |-> date + 100, description |-> "pre",
     start |-> InstantOf(date, DefaultStart), end |-> InstantOf(date, DefaultEnd),
     by |-> "pre", run |-> 0]

Init ==
    /\ today \in TodayRange
    /\ holidays \in HolidaySets
    /\ configFile \in ConfigFiles
    /\ tasks \in TaskSets
    /\ nextTaskId = 2
    /\ timeEntries = {}
    /\ remote \in {{PreEntry(d) : d \in ds} : ds \in SUBSET RemoteDays}
    /\ userId = 0
    /\ pc = "start"
    /\ exitCode = 0 - 1
    /\ config = EmptyConfig
    /\ datesToCheck = <<>>
    /\ batchIndex = 0
    /\ chk = NoTasks
    /\ entryResults = <<>>
    /\ missingDates = <<>>
    /\ jiraTaskTitle = ""
    /\ crt = NoTasks
    /\ addedCount = 0
    /\ cur = NoCur
    /\ faults = 0
    /\ runs = 1
    /\ obs = NoObs
    /\ call = NoCall

\* process.exit(1) in the catch of the run action
Fatal(kind) ==
    /\ pc' = "exited"
    /\ exitCode' = 1
    /\ obs' = ObsErr(obs, kind)

Fault ==
    /\ faults < MaxFaults
    /\ faults' = faults + 1

\* run action: loadConfig and the completeness check
LoadConfig ==
    /\ pc = "start"
    /\ config' = loadConfig(configFile)
    /\ IF ~config'.clockify
       THEN pc' = "exited" /\ exitCode' = 0
       ELSE pc' = "init" /\ UNCHANGED exitCode
    /\ UNCHANGED <<inputs, ledger, remote, userId, fill, cur, faults, runs, obs>>

\* run action: persistenceService.initialize(), then the skip test on today
Initialize ==
    /\ pc = "init"
    /\ \/ /\ Fault
          /\ Fatal("storage")
       \/ /\ IF shouldSkipDate(holidays, today).skip
             THEN /\ pc' = "exited"
                  /\ exitCode' = 0
                  /\ obs' = [obs EXCEPT !.skipped = TRUE]
             ELSE /\ pc' = "fill"
                  /\ UNCHANGED <<exitCode, obs>>
          /\ UNCHANGED faults
    /\ UNCHANGED <<inputs, ledger, remote, userId, config, fill, cur, runs>>

\* fillMissingEntries: window, eligibility filter and batching
CandidateWindow(now) == getDateRange(startOfPreviousMonth(now), now - 1)

EligibleDates(hol, now) ==
    SelectSeq(SelectSeq(CandidateWindow(now), isWeekday),
              LAMBDA date : ~shouldSkipDate(hol, date).skip)

BeginFill ==
    /\ pc = "fill"
    /\ datesToCheck' = EligibleDates(holidays, today)
    /\ batchIndex' = 0
    /\ pc' = IF NumBatches(datesToCheck', CHECK_BATCH_SIZE) > 0
             THEN "checkStart" ELSE "gaps"
    /\ UNCHANGED <<inputs, ledger, remote, userId, exitCode, config, chk,
                   entryResults, missingDates, jiraTaskTitle, crt, addedCount,
                   cur, faults, runs, obs>>


\* a request goes out: remember whether a 401 had been seen before it
Issue(o) == [o EXCEPT !.afterAuth = @ \/ o.authSeen]

needsResolveAlways(cachedUserId) == TRUE

\* ClockifyService.ensureUserId: if (!this.userId) a GET /user is issued
needsResolve(cachedUserId) == cachedUserId = 0

hasEntryNever(entries, date) == FALSE

\* ClockifyService.hasEntryForDate: entries.length > 0
hasEntry(entries, date) == EntriesForDate(entries, date) # {}

\* ------------------------------------------------ gap-fill: check batches
\* batch.map(async date => hasEntryForDate(date)): every task of the batch
\* runs up to its first request
StartCheckBatch ==
    /\ pc = "checkStart"
    /\ LET batch == BatchOf(datesToCheck, batchIndex, CHECK_BATCH_SIZE)
       IN  /\ chk' = [d \in Range(batch) |->
                        IF needsResolve(userId) THEN "waitUser" ELSE "waitEntries"]
           /\ obs' = Issue([obs EXCEPT
                  !.userRequests = @ + (IF needsResolve(userId) THEN Len(batch) ELSE 0),
                  !.checks = [d \in Days |-> @[d] + (IF d \in Range(batch) THEN 1 ELSE 0)]])
    /\ pc' = "checking"
    /\ UNCHANGED <<inputs, ledger, remote, userId, exitCode, config, datesToCheck,
                   batchIndex, entryResults, missingDates, jiraTaskTitle, crt,
                   addedCount, cur, faults, runs>>

\* hasEntryForDate(d) rejects: Promise.all rejects, and with it
\* fillMissingEntries and the try block of the run action
CheckRejected(d, kind) ==
    /\ pc' = "exited"
    /\ exitCode' = 1
    /\ obs' = [ObsErr(obs, kind) EXCEPT !.checkFailed = @ \cup {d}]

\* the answer to GET /user of the check of date d
CheckUserResponse(d) ==
    /\ pc = "checking"
    /\ d \in DOMAIN chk
    /\ chk[d] = "waitUser"
    /\ \/ /\ userId' = UserIdValue
          /\ chk' = [chk EXCEPT ![d] = "waitEntries"]
          /\ obs' = Issue([obs EXCEPT !.userWrites = @ + 1])
          /\ UNCHANGED <<pc, exitCode, faults>>
       \/ \E kind \in NetErrors :
            /\ Fault
            /\ CheckRejected(d, kind)
            /\ UNCHANGED <<userId, chk>>
    /\ UNCHANGED <<inputs, ledger, remote, config, datesToCheck, batchIndex,
                   entryResults, missingDates, jiraTaskTitle, crt, addedCount,
                   cur, runs>>

\* the answer to GET time-entries of the check of date d
CheckEntriesResponse(d) ==
    /\ pc = "checking"
    /\ d \in DOMAIN chk
    /\ chk[d] = "waitEntries"
    /\ \/ /\ chk' = [chk EXCEPT ![d] = IF hasEntry(remote, d) THEN "true" ELSE "false"]
          /\ obs' = [obs EXCEPT !.checkedFalse =
                 IF hasEntry(remote, d) THEN @ ELSE @ \cup {d}]
          /\ UNCHANGED <<pc, exitCode, faults>>
       \/ \E kind \in NetErrors :
            /\ Fault
            /\ CheckRejected(d, kind)
            /\ UNCHANGED chk
    /\ UNCHANGED <<inputs, ledger, remote, userId, config, datesToCheck, batchIndex,
                   entryResults, missingDates, jiraTaskTitle, crt, addedCount,
                   cur, runs>>

\* await Promise.all(batchPromises); entryResults.push(...batchResults)
FinishCheckBatch ==
    /\ pc = "checking"
    /\ \A d \in DOMAIN chk : chk[d] \in {"true", "false"}
    /\ LET batch == BatchOf(datesToCheck, batchIndex, CHECK_BATCH_SIZE)
       IN  entryResults' = entryResults \o
               [i \in 1 .. Len(batch) |->
                   [date |-> batch[i], hasEntry |-> chk[batch[i]] = "true"]]
    /\ chk' = NoTasks
    /\ IF batchIndex < NumBatches(datesToCheck, CHECK_BATCH_SIZE) - 1
       THEN pc' = "checkStart" /\ batchIndex' = batchIndex + 1
       ELSE pc' = "gaps" /\ batchIndex' = 0
    /\ UNCHANGED <<inputs, ledger, remote, userId, exitCode, config, datesToCheck,
                   missingDates, jiraTaskTitle, crt, addedCount, cur, faults,
                   runs, obs>>

\* ------------------------------------- gap computation and Jira pre-fetch
IsMissingAlways(result) == TRUE

IsMissingNever(result) == FALSE

\* entryResults.filter(result => !result.hasEntry)
IsMissing(result) == ~result.hasEntry

ComputeGaps ==
    /\ pc = "gaps"
    /\ missingDates' = SelectSeq(entryResults, IsMissing)
    /\ jiraTaskTitle' = ""
    /\ IF Len(missingDates') = 0
       THEN pc' = "today"
            /\ obs' = [obs EXCEPT !.fillDone = TRUE, !.gapsDone = TRUE]
       ELSE IF config.jira
            THEN pc' = "jiraWait"
                 /\ obs' = Issue([obs EXCEPT !.jiraLookups = @ + 1,
                                             !.gapsDone = TRUE,
                                             !.prefetch = "issued"])
            ELSE pc' = "createStart"
                 /\ obs' = [obs EXCEPT !.gapsDone = TRUE]
    /\ UNCHANGED <<inputs, ledger, remote, userId, exitCode, config, datesToCheck,
                   batchIndex, chk, entryResults, crt, addedCount, cur, faults, runs>>

JiraTitles == {"", "J"}
    \* the summary of the first task returned; "" when no task is returned

\* the answer to jiraService.getCurrentTasks(); an error is caught
JiraPrefetchResponse ==
    /\ pc = "jiraWait"
    /\ \/ \E title \in JiraTitles :
            /\ jiraTaskTitle' = title
            /\ obs' = [obs EXCEPT
                   !.prefetch = IF title # "" THEN "title" ELSE "empty"]
            /\ UNCHANGED faults
       \/ /\ Fault
          /\ jiraTaskTitle' = ""
          /\ obs' = [obs EXCEPT !.prefetch = "error"]
    /\ pc' = "createStart"
    /\ UNCHANGED <<inputs, ledger, remote, userId, exitCode, config, datesToCheck,
                   batchIndex, chk, entryResults, missingDates, crt, addedCount,
                   cur, runs>>


\* -------------------------------------------- gap-fill: creation batches
resolveDescriptionTitleFirst(task, title) ==
    IF title # "" THEN title
    ELSE IF task # NoTask THEN task.description ELSE "General work"

\* task ? task.description : (jiraTaskTitle || 'General work')
resolveDescription(task, title) ==
    IF task # NoTask THEN task.description
    ELSE IF title # "" THEN title ELSE "General work"

\* the entry the service stores for an accepted POST
RemoteEntry(entries, timeEntry, by, run) ==
    [id |-> Cardinality(entries) + 1, description |-> timeEntry.description,
     start |-> timeEntry.start, end |-> timeEntry.end, by |-> by, run |-> run]

\* the row persistenceService.addTimeEntry inserts: dayjs(...).format('HH:mm:ss')
\* of start and end, and their difference in minutes
TimeOfDay(instant) == <<(instant % MinutesPerDay) \div 60, instant % 60>>

LedgerRecord(rows, clockifyId, date, timeEntry) ==
    [id |-> Cardinality(rows) + 1, clockifyId |-> clockifyId, date |-> date,
     description |-> timeEntry.description,
     startTime |-> TimeOfDay(timeEntry.start), endTime |-> TimeOfDay(timeEntry.end),
     durationMinutes |-> timeEntry.end - timeEntry.start]

\* axios.post of ClockifyService.addTimeEntry goes out for date d
PostIssued(o, d, timeEntry) ==
    Issue([o EXCEPT !.posts[d] = @ + 1,
                    !.invalidPost = @ \/ timeEntry.end <= timeEntry.start])

CrtDone(task) == task.st \in {"ok", "failed"}

\* the catch of the per-date try: the date is reported as failed and the
\* batch goes on
PerDateRethrow(d, kind) ==
    /\ Fatal(kind)
    /\ UNCHANGED crt

PerDateCatch(d, kind) ==
    /\ crt' = [crt EXCEPT ![d].st = "failed"]
    /\ obs' = [ObsErr(obs, kind) EXCEPT !.errored = @ \cup {d}]
    /\ UNCHANGED <<pc, exitCode>>

\* batch.map(async ({ date }) => ...): every task runs up to getTaskForDate's query
StartCreateBatch ==
    /\ pc = "createStart"
    /\ LET batch == BatchOf(missingDates, batchIndex, BATCH_SIZE)
       IN  crt' = [d \in {batch[i].date : i \in DOMAIN batch} |->
                      [st |-> "waitTask", description |-> "", clockifyId |-> 0]]
    /\ pc' = "creating"
    /\ UNCHANGED <<inputs, ledger, remote, userId, exitCode, config, datesToCheck,
                   batchIndex, chk, entryResults, missingDates, jiraTaskTitle,
                   addedCount, cur, faults, runs, obs>>

\* the result of getTaskForDate(date): the description is resolved, the entry
\* built and its POST sent; a storage error is caught by the per-date catch
CreateTaskResponse(d) ==
    /\ pc = "creating"
    /\ d \in DOMAIN crt
    /\ crt[d].st = "waitTask"
    /\ \/ LET task == getTaskForDate(tasks, d, today)
              description == resolveDescription(task, jiraTaskTitle)
              timeEntry == createTimeEntry(config, d, description)
          IN  /\ crt' = [crt EXCEPT ![d] = [st |-> "waitPost",
                            description |-> description, clockifyId |-> 0]]
              /\ obs' = PostIssued(obs, d, timeEntry)
              /\ UNCHANGED <<pc, exitCode, faults>>
       \/ /\ Fault
          /\ PerDateCatch(d, "storage")
    /\ UNCHANGED <<inputs, ledger, remote, userId, config,
                   datesToCheck, batchIndex, chk, entryResults, missingDates,
                   jiraTaskTitle, addedCount, cur, runs>>

\* the answer to the POST for date d: accepted, rejected, or accepted with the
\* answer lost (a timeout); every error is caught by the per-date catch
CreatePostResponse(d) ==
    /\ pc = "creating"
    /\ d \in DOMAIN crt
    /\ crt[d].st = "waitPost"
    /\ LET timeEntry == createTimeEntry(config, d, crt[d].description)
           entry == RemoteEntry(remote, timeEntry, "fill", runs)
       IN  \/ /\ remote' = remote \cup {entry}
              /\ crt' = [crt EXCEPT ![d].st = "waitInsert", ![d].clockifyId = entry.id]
              /\ obs' = [obs EXCEPT !.createOk = @ \cup {d}]
              /\ UNCHANGED <<pc, exitCode, faults>>
           \/ \E kind \in NetErrors :
                /\ Fault
                /\ PerDateCatch(d, kind)
                /\ UNCHANGED remote
           \/ /\ Fault
              /\ remote' = remote \cup {entry}
              /\ PerDateCatch(d, "transient")
    /\ UNCHANGED <<inputs, ledger, userId, config, datesToCheck,
                   batchIndex, chk, entryResults, missingDates, jiraTaskTitle,
                   addedCount, cur, runs>>

\* the result of INSERT INTO time_entries for date d
CreateInsertResponse(d) ==
    /\ pc = "creating"
    /\ d \in DOMAIN crt
    /\ crt[d].st = "waitInsert"
    /\ \/ /\ timeEntries' = timeEntries \cup
                {LedgerRecord(timeEntries, crt[d].clockifyId, d,
                              createTimeEntry(config, d, crt[d].description))}
          /\ crt' = [crt EXCEPT ![d].st = "waitLastId"]
          /\ UNCHANGED <<pc, exitCode, faults, obs>>
       \/ /\ Fault
          /\ PerDateCatch(d, "storage")
          /\ UNCHANGED timeEntries
    /\ UNCHANGED <<inputs, tasks, nextTaskId, remote, userId, config,
                   datesToCheck, batchIndex, chk, entryResults, missingDates,
                   jiraTaskTitle, addedCount, cur, runs>>

\* the result of SELECT last_insert_rowid() for date d
CreateLastIdResponse(d) ==
    /\ pc = "creating"
    /\ d \in DOMAIN crt
    /\ crt[d].st = "waitLastId"
    /\ \/ /\ crt' = [crt EXCEPT ![d].st = "ok"]
          /\ UNCHANGED <<pc, exitCode, faults, obs>>
       \/ /\ Fault
          /\ PerDateCatch(d, "storage")
    /\ UNCHANGED <<inputs, ledger, remote, userId, config,
                   datesToCheck, batchIndex, chk, entryResults, missingDates,
                   jiraTaskTitle, addedCount, cur, runs>>

\* await Promise.all(addEntryPromises); addedCount += successCount; after the
\* last batch the summary is printed and fillMissingEntries returns
FinishCreateBatch ==
    /\ pc = "creating"
    /\ \A d \in DOMAIN crt : CrtDone(crt[d])
    /\ addedCount' = addedCount + Cardinality({d \in DOMAIN crt : crt[d].st = "ok"})
    /\ crt' = NoTasks
    /\ IF batchIndex < NumBatches(missingDates, BATCH_SIZE) - 1
       THEN /\ pc' = "createStart"
            /\ batchIndex' = batchIndex + 1
            /\ obs' = [obs EXCEPT
                   !.failed = @ \cup {d \in DOMAIN crt : crt[d].st = "failed"}]
       ELSE /\ pc' = "today"
            /\ batchIndex' = 0
            /\ obs' = [obs EXCEPT
                   !.failed = @ \cup {d \in DOMAIN crt : crt[d].st = "failed"},
                   !.summary = TRUE, !.fillDone = TRUE]
    /\ UNCHANGED <<inputs, ledger, remote, userId, exitCode, config, datesToCheck,
                   chk, entryResults, missingDates, jiraTaskTitle, cur, faults, runs>>


\* ------------------------------------------------------ processCurrentDay
\* createTimeEntry(today, description) and the POST of addTimeEntry
GoPost(description, o) ==
    /\ pc' = "todayPost"
    /\ cur' = [cur EXCEPT !.description = description]
    /\ obs' = PostIssued([o EXCEPT !.todayDescription = description], today,
                         createTimeEntry(config, today, description))
    /\ UNCHANGED exitCode

GoCatchFatal(o) ==
    /\ pc' = "exited"
    /\ exitCode' = 1
    /\ obs' = o
    /\ UNCHANGED cur

\* the catch block: getTaskForDate(today) is queried
GoCatch(o) ==
    /\ pc' = "todayCatch"
    /\ obs' = o
    /\ UNCHANGED <<cur, exitCode>>

StartToday ==
    /\ pc = "today"
    /\ pc' = IF needsResolve(userId) THEN "todayUser" ELSE "todayEntries"
    /\ cur' = [NoCur EXCEPT !.description = "General work"]
    /\ obs' = Issue([obs EXCEPT
           !.userRequests = @ + (IF needsResolve(userId) THEN 1 ELSE 0),
           !.checks[today] = @ + 1,
           !.covering = getTaskForDate(tasks, today, today).description])
    /\ UNCHANGED <<inputs, ledger, remote, userId, exitCode, config, fill,
                   faults, runs>>

TodayUserResponse ==
    /\ pc = "todayUser"
    /\ \/ /\ userId' = UserIdValue
          /\ pc' = "todayEntries"
          /\ obs' = Issue([obs EXCEPT !.userWrites = @ + 1])
          /\ UNCHANGED <<exitCode, faults>>
       \/ \E kind \in NetErrors :
            /\ Fault
            /\ Fatal(kind)
            /\ UNCHANGED userId
    /\ UNCHANGED <<inputs, ledger, remote, config, fill, cur, runs>>

\* the answer to the existence check of today
TodayEntriesResponse ==
    /\ pc = "todayEntries"
    /\ \/ /\ IF hasEntry(remote, today)
             THEN pc' = "report" /\ UNCHANGED obs
             ELSE IF config.jira
                  THEN pc' = "todayJira"
                       /\ obs' = Issue([obs EXCEPT !.jiraLookups = @ + 1,
                                                   !.checkedFalse = @ \cup {today}])
                  ELSE pc' = "todayTask"
                       /\ obs' = [obs EXCEPT !.checkedFalse = @ \cup {today}]
          /\ UNCHANGED <<exitCode, faults>>
       \/ \E kind \in NetErrors :
            /\ Fault
            /\ Fatal(kind)
    /\ UNCHANGED <<inputs, ledger, remote, userId, config, fill, cur, runs>>

\* the answer to jiraService.getCurrentTasks(): with a task its summary becomes
\* the description and addTask(today) starts; an error enters the catch block
TodayJiraResponse ==
    /\ pc = "todayJira"
    /\ \/ /\ pc' = "todaySelect"
          /\ cur' = [cur EXCEPT !.description = "J"]
          /\ obs' = [obs EXCEPT !.jira = "title"]
          /\ UNCHANGED <<exitCode, faults>>
       \/ /\ GoPost(cur.description, [obs EXCEPT !.jira = "empty"])
          /\ UNCHANGED faults
       \/ /\ Fault
          /\ GoCatch([obs EXCEPT !.jira = "error"])
    /\ UNCHANGED <<inputs, ledger, remote, userId, config, fill, runs>>

SelectTaskNone(rows, startDate) == 0

\* db.get('SELECT * FROM tasks WHERE start_date = ?'): the id of the first
\* row with this start date, 0 for undefined
SelectTask(rows, startDate) ==
    IF \E r \in rows : r.startDate = startDate
    THEN (CHOOSE r \in rows : r.startDate = startDate
              /\ \A o \in rows : o.startDate = startDate => r.id <= o.id).id
    ELSE 0

\* addTask: the result of SELECT * FROM tasks WHERE start_date = today
TodaySelectResponse ==
    /\ pc = "todaySelect"
    /\ \/ /\ pc' = "todayWrite"
          /\ cur' = [cur EXCEPT !.existing = SelectTask(tasks, today)]
          /\ UNCHANGED <<exitCode, faults, obs>>
       \/ /\ Fault
          /\ GoCatch(ObsErr(obs, "storage"))
    /\ UNCHANGED <<inputs, ledger, remote, userId, config, fill, runs>>

\* addTask: the result of the UPDATE (a row existed) or of the INSERT
TodayWriteResponse ==
    /\ pc = "todayWrite"
    /\ \/ /\ cur.existing # 0
          /\ tasks' = {IF r.startDate = today
                       THEN [r EXCEPT !.project = "P", !.description = cur.description]
                       ELSE r : r \in tasks}
          /\ GoPost(cur.description, obs)
          /\ UNCHANGED <<nextTaskId, faults>>
       \/ /\ cur.existing = 0
          /\ tasks' = tasks \cup {[id |-> nextTaskId, startDate |-> today,
                                   project |-> "P", description |-> cur.description]}
          /\ nextTaskId' = nextTaskId + 1
          /\ pc' = "todayLastId"
          /\ UNCHANGED <<cur, exitCode, faults, obs>>
       \/ /\ Fault
          /\ GoCatch(ObsErr(obs, "storage"))
          /\ UNCHANGED <<tasks, nextTaskId>>
    /\ UNCHANGED <<inputs, timeEntries, remote, userId, config, fill, runs>>

\* addTask: the result of getLastInsertId after the INSERT
TodayLastIdResponse ==
    /\ pc = "todayLastId"
    /\ \/ /\ GoPost(cur.description, obs)
          /\ UNCHANGED faults
       \/ /\ Fault
          /\ GoCatch(ObsErr(obs, "storage"))
    /\ UNCHANGED <<inputs, ledger, remote, userId, config, fill, runs>>

\* Jira is not configured: the result of getTaskForDate(today) in the try block
TodayTaskResponse ==
    /\ pc = "todayTask"
    /\ \/ /\ LET existingTask == getTaskForDate(tasks, today, today)
             IN  GoPost(IF existingTask # NoTask THEN existingTask.description
                        ELSE cur.description, obs)
          /\ UNCHANGED faults
       \/ /\ Fault
          /\ GoCatch(ObsErr(obs, "storage"))
    /\ UNCHANGED <<inputs, ledger, remote, userId, config, fill, runs>>

\* the result of getTaskForDate(today) in the catch block; its error is fatal
TodayCatchResponse ==
    /\ pc = "todayCatch"
    /\ \/ /\ LET existingTask == getTaskForDate(tasks, today, today)
             IN  GoPost(IF existingTask # NoTask THEN existingTask.description
                        ELSE cur.description, obs)
          /\ UNCHANGED faults
       \/ /\ Fault
          /\ Fatal("storage")
          /\ UNCHANGED cur
    /\ UNCHANGED <<inputs, ledger, remote, userId, config, fill, runs>>


\* the answer to the POST for today; an error leaves processCurrentDay
TodayPostResponse ==
    /\ pc = "todayPost"
    /\ LET timeEntry == createTimeEntry(config, today, cur.description)
           entry == RemoteEntry(remote, timeEntry, "today", runs)
       IN  \/ /\ remote' = remote \cup {entry}
              /\ cur' = [cur EXCEPT !.clockifyId = entry.id]
              /\ pc' = "todayInsert"
              /\ obs' = [obs EXCEPT !.createOk = @ \cup {today}]
              /\ UNCHANGED <<exitCode, faults>>
           \/ \E kind \in NetErrors :
                /\ Fault
                /\ Fatal(kind)
                /\ UNCHANGED <<remote, cur>>
           \/ /\ Fault
              /\ remote' = remote \cup {entry}
              /\ Fatal("transient")
              /\ UNCHANGED cur
    /\ UNCHANGED <<inputs, ledger, userId, config, fill, runs>>

\* the result of INSERT INTO time_entries for today
TodayInsertResponse ==
    /\ pc = "todayInsert"
    /\ \/ /\ timeEntries' = timeEntries \cup
                {LedgerRecord(timeEntries, cur.clockifyId, today,
                              createTimeEntry(config, today, cur.description))}
          /\ pc' = "todayRecId"
          /\ UNCHANGED <<exitCode, faults, obs>>
       \/ /\ Fault
          /\ Fatal("storage")
          /\ UNCHANGED timeEntries
    /\ UNCHANGED <<inputs, tasks, nextTaskId, remote, userId, config, fill, cur, runs>>

\* the result of getLastInsertId after the INSERT for today
TodayRecIdResponse ==
    /\ pc = "todayRecId"
    /\ \/ /\ pc' = "report"
          /\ UNCHANGED <<exitCode, faults, obs>>
       \/ /\ Fault
          /\ Fatal("storage")
    /\ UNCHANGED <<inputs, ledger, remote, userId, config, fill, cur, runs>>

\* ------------------------------------------------ report and end of the run
\* if (isLastBusinessDayOfMonth(today)) generateMonthlyReport(...): it returns
\* early without a report directory and catches every error of the report
Report ==
    /\ pc = "report"
    /\ obs' = [obs EXCEPT
           !.report = isLastBusinessDayOfMonth(today) /\ config.reportDir]
    /\ pc' = "exited"
    /\ exitCode' = 0
    /\ UNCHANGED <<inputs, ledger, remote, userId, config, fill, cur, faults, runs>>

\* the command is invoked a second time: a new process, the same ledger and
\* the same service
Rerun ==
    /\ pc = "exited"
    /\ runs = 1
    /\ runs' = runs + 1
    /\ pc' = "start"
    /\ exitCode' = 0 - 1
    /\ userId' = 0
    /\ config' = EmptyConfig
    /\ datesToCheck' = <<>>
    /\ batchIndex' = 0
    /\ chk' = NoTasks
    /\ entryResults' = <<>>
    /\ missingDates' = <<>>
    /\ jiraTaskTitle' = ""
    /\ crt' = NoTasks
    /\ addedCount' = 0
    /\ cur' = NoCur
    /\ obs' = [NoObs EXCEPT
           !.prevFill = obs.fillDone /\ ~obs.storageErr /\ ~obs.authSeen]
    /\ UNCHANGED <<inputs, ledger, remote, faults>>

Next ==
    \/ LoadConfig
    \/ Initialize
    \/ BeginFill
    \/ StartCheckBatch
    \/ \E d \in Days : CheckUserResponse(d)
    \/ \E d \in Days : CheckEntriesResponse(d)
    \/ FinishCheckBatch
    \/ ComputeGaps
    \/ JiraPrefetchResponse
    \/ StartCreateBatch
    \/ \E d \in Days : CreateTaskResponse(d)
    \/ \E d \in Days : CreatePostResponse(d)
    \/ \E d \in Days : CreateInsertResponse(d)
    \/ \E d \in Days : CreateLastIdResponse(d)
    \/ FinishCreateBatch
    \/ StartToday
    \/ TodayUserResponse
    \/ TodayEntriesResponse
    \/ TodayJiraResponse
    \/ TodaySelectResponse
    \/ TodayWriteResponse
    \/ TodayLastIdResponse
    \/ TodayTaskResponse
    \/ TodayCatchResponse
    \/ TodayPostResponse
    \/ TodayInsertResponse
    \/ TodayRecIdResponse
    \/ Report

Spec == Init /\ [][Next]_vars

\* two invocations of the command against the same service and ledger
InitTwice ==
    /\ Init
    /\ configFile \in {[readable |-> TRUE, content |-> c] :
                          c \in {Complete, [Complete EXCEPT !.jira = TRUE]}}
    /\ holidays \in {{}, 1 .. (DaysPerMonth - 1)}
    /\ today \in {FirstToday, FirstToday + 1}
    /\ remote \in {{}, {PreEntry(2)}}
    /\ tasks = {}

NextTwice == Next \/ Rerun

SpecTwice == InitTwice /\ [][NextTwice]_vars


\* ------------------------------------------------ direct calls of services
\* The `tasks` command and the unit tests call the ledger and the business-day
\* service directly, one call after another: each call runs to its end before
\* the next one starts.

\* the start dates the calls assign: in the past, in the current window and
\* after every value of today
AssignDates == {1, FirstToday + 1, LastToday + 1}
QueryDates == 0 .. (LastToday + 1)
Assignments ==
    {[project |-> "P", description |-> "A"], [project |-> "Q", description |-> "B"]}

\* what this.holidays.isHoliday(new Date(date)) gives: false, an empty list,
\* a list of holidays, or an exception
HolidayData == {"false", "empty", "list", "throws"}

isHolidayOrThrows(holidayData) == holidayData \in {"list", "throws"}

\* HolidayService.isHoliday: holidayData !== false && holidayData.length > 0,
\* false in the catch
isHoliday(holidayData) ==
    IF holidayData = "throws" THEN FALSE
    ELSE holidayData # "false" /\ holidayData = "list"

\* BusinessDayService.isBusinessDay
isBusinessDay(date, holidayData) ==
    IF ~isWeekday(date) THEN FALSE
    ELSE IF isHoliday(holidayData) THEN FALSE
    ELSE TRUE

unitFrame == <<today, holidays, configFile, timeEntries, remote, userId, pc,
               exitCode, config, fill, cur, faults, runs, obs>>

\* PersistenceService.addTask(task): SELECT, then UPDATE or INSERT
AddTaskCall(startDate, task) ==
    /\ LET existing == SelectTask(tasks, startDate)
       IN  IF existing # 0
           THEN /\ tasks' = {IF r.startDate = startDate
                             THEN [r EXCEPT !.project = task.project,
                                            !.description = task.description]
                             ELSE r : r \in tasks}
                /\ UNCHANGED nextTaskId
                /\ call' = [op |-> "addTask", date |-> startDate,
                            data |-> task.description, pre |-> tasks,
                            result |-> existing]
           ELSE /\ nextTaskId <= MaxTaskId
                /\ tasks' = tasks \cup {[id |-> nextTaskId, startDate |-> startDate,
                                         project |-> task.project,
                                         description |-> task.description]}
                /\ nextTaskId' = nextTaskId + 1
                /\ call' = [op |-> "addTask", date |-> startDate,
                            data |-> task.description, pre |-> tasks,
                            result |-> nextTaskId]
    /\ UNCHANGED unitFrame

\* PersistenceService.deleteTask(startDate): DELETE FROM tasks WHERE start_date = ?
DeleteTaskCall(startDate) ==
    /\ tasks' = {r \in tasks : r.startDate # startDate}
    /\ call' = [op |-> "deleteTask", date |-> startDate, data |-> "",
                pre |-> tasks, result |-> 0]
    /\ UNCHANGED <<nextTaskId, unitFrame>>

\* PersistenceService.getTasks()
GetTasksCall ==
    /\ call' = [op |-> "getTasks", date |-> 0, data |-> "", pre |-> tasks,
                result |-> getTasks(tasks, today)]
    /\ UNCHANGED <<tasks, nextTaskId, unitFrame>>

\* PersistenceService.getTaskForDate(date)
GetTaskForDateCall(date) ==
    /\ call' = [op |-> "getTaskForDate", date |-> date, data |-> "", pre |-> tasks,
                result |-> getTaskForDate(tasks, date, today)]
    /\ UNCHANGED <<tasks, nextTaskId, unitFrame>>

\* BusinessDayService.isBusinessDay(date), the calendar answering holidayData
IsBusinessDayCall(date, holidayData) ==
    /\ call' = [op |-> "isBusinessDay", date |-> date, data |-> holidayData,
                pre |-> tasks, result |-> isBusinessDay(date, holidayData)]
    /\ UNCHANGED <<tasks, nextTaskId, unitFrame>>

InitUnit ==
    /\ Init
    /\ configFile = [readable |-> TRUE, content |-> Complete]
    /\ holidays = {}
    /\ remote = {}
    /\ tasks = {}

NextUnit ==
    \/ \E startDate \in AssignDates, task \in Assignments : AddTaskCall(startDate, task)
    \/ \E startDate \in AssignDates : DeleteTaskCall(startDate)
    \/ GetTasksCall
    \/ \E date \in QueryDates : GetTaskForDateCall(date)
    \/ \E date \in QueryDates, holidayData \in HolidayData :
           IsBusinessDayCall(date, holidayData)

SpecUnit == InitUnit /\ [][NextUnit]_vars

\* -------------------------------------- direct calls of the Clockify client
\* what a request of the client is answered with
Answers == {"ok"} \cup NetErrors

\* GET /user answered 200 without data.id: ensureUserId throws
UserAnswers == Answers \cup {"missingId"}

clientFrame == <<today, holidays, configFile, ledger, remote, pc, exitCode,
                 config, fill, cur, runs>>

\* ClockifyService.hasEntryForDate(date), called when no other call of the
\* client is in progress: ensureUserId, then GET time-entries.  call.data
\* names the requests the call issued.
HasEntryForDateCall(date, userAnswer, entriesAnswer) ==
    LET request == needsResolve(userId)
        resolved == ~request \/ userAnswer = "ok"
        failed == ~resolved \/ entriesAnswer # "ok"
    IN  /\ IF failed THEN Fault ELSE UNCHANGED faults
        /\ userId' = IF request /\ resolved THEN UserIdValue ELSE userId
        /\ obs' = [obs EXCEPT
               !.userRequests = @ + (IF request THEN 1 ELSE 0),
               !.userWrites = @ + (IF request /\ resolved THEN 1 ELSE 0)]
        /\ call' = [op |-> "hasEntryForDate", date |-> date,
                    data |-> IF ~request THEN "entries"
                             ELSE IF resolved THEN "user+entries" ELSE "user",
                    pre |-> tasks,
                    result |-> ~failed /\ hasEntry(remote, date)]
        /\ UNCHANGED clientFrame

\* new ClockifyService(config): userId = null and no request
InitClient ==
    /\ Init
    /\ configFile = [readable |-> TRUE, content |-> Complete]
    /\ holidays = {}
    /\ tasks = {}

NextClient ==
    \E date \in QueryDates, userAnswer \in UserAnswers, entriesAnswer \in Answers :
        HasEntryForDateCall(date, userAnswer, entriesAnswer)

SpecClient == InitClient /\ [][NextClient]_vars

\* ------------------------------------------------------------- config set
\* /^([01]?[0-9]|2[0-3]):[0-5][0-9]$/ on a value written hours:minutes
isValidTimeFormat(time) ==
    /\ time # Unset
    /\ time[1] \in 0 .. 23
    /\ time[2] \in 0 .. 59

TotalMinutes(time) == time[1] * 60 + time[2]

validateTimeRange(startTime, endTime) ==
    /\ isValidTimeFormat(startTime)
    /\ isValidTimeFormat(endTime)
    /\ ~(TotalMinutes(startTime) >= TotalMinutes(endTime))
    /\ ~(TotalMinutes(endTime) - TotalMinutes(startTime) < 60)
    /\ ~(TotalMinutes(endTime) - TotalMinutes(startTime) > 24 * 60)

\* the <key> arguments tried: the two time keys, another valid key, an
\* invalid one
ConfigKeys == {"defaultStartTime", "defaultEndTime", "reportDir", "verbose"}
validKeys == {"defaultStartTime", "defaultEndTime", "reportDir"}

\* the <value> arguments tried for a time key
TimeValues == {<<7, 0>>, <<16, 30>>, <<18, 0>>, <<25, 0>>, <<9, 60>>}

configFrame == <<today, holidays, ledger, remote, userId, pc, exitCode, config,
                 fill, cur, faults, runs, obs>>

\* the configuration `config set <key> <value>` saves; the current one when
\* the command returns before saveConfig
configAfterSet(currentConfig, key, value) ==
    IF key \notin validKeys THEN currentConfig
    ELSE IF key = "reportDir" THEN [currentConfig EXCEPT !.reportDir = TRUE]
    ELSE IF ~isValidTimeFormat(value) THEN currentConfig
    ELSE LET otherTime == IF key = "defaultStartTime"
                          THEN currentConfig.defaultEndTime
                          ELSE currentConfig.defaultStartTime
             startTime == IF key = "defaultStartTime" THEN value ELSE otherTime
             endTime == IF key = "defaultEndTime" THEN value ELSE otherTime
         IN  IF otherTime # Unset /\ ~validateTimeRange(startTime, endTime)
             THEN currentConfig
             ELSE IF key = "defaultStartTime"
                  THEN [currentConfig EXCEPT !.defaultStartTime = value]
                  ELSE [currentConfig EXCEPT !.defaultEndTime = value]

\* whether `config set <key> <value>` reaches saveConfig
setAccepted(currentConfig, key, value) ==
    /\ key \in validKeys
    /\ key # "reportDir" =>
          /\ isValidTimeFormat(value)
          /\ LET otherTime == IF key = "defaultStartTime"
                              THEN currentConfig.defaultEndTime
                              ELSE currentConfig.defaultStartTime
                 startTime == IF key = "defaultStartTime" THEN value ELSE otherTime
                 endTime == IF key = "defaultEndTime" THEN value ELSE otherTime
             IN  otherTime # Unset => validateTimeRange(startTime, endTime)

\* the action of `config set <key> <value>`
ConfigSetCall(key, value) ==
    LET currentConfig == loadConfig(configFile)
    IN  /\ configFile' =
               IF setAccepted(currentConfig, key, value)
               THEN [readable |-> TRUE,
                     content |-> configAfterSet(currentConfig, key, value)]
               ELSE configFile
        /\ call' = [op |-> "configSet", date |-> 0, data |-> key,
                    pre |-> <<currentConfig, value>>,
                    result |-> setAccepted(currentConfig, key, value)]
        /\ UNCHANGED configFrame

\* no configuration has been saved yet
InitConfig ==
    /\ Init
    /\ configFile = [readable |-> TRUE, content |-> EmptyConfig]
    /\ today = FirstToday
    /\ holidays = {}
    /\ remote = {}
    /\ tasks = {}

NextConfig ==
    \E key \in ConfigKeys, value \in TimeValues : ConfigSetCall(key, value)

SpecConfig == InitConfig /\ [][NextConfig]_vars

\* --------------------------- a run and a `tasks add` on the same ledger file
\* `tasks add <today> <project> <description>` started once from another
\* shell while the run is in progress; its SELECT and its INSERT or UPDATE
\* land between two steps of the run
TasksAddCall ==
    /\ call = NoCall
    /\ \E task \in Assignments : AddTaskCall(today, task)

NextShared == Next \/ TasksAddCall

SpecShared == InitTwice /\ [][NextShared]_vars


\* ------------------------------------------------------------------ claims
DayOf(instant) == instant \div MinutesPerDay
MissingSet == {missingDates[i].date : i \in DOMAIN missingDates}
CheckedSet == {entryResults[i].date : i \in DOMAIN entryResults}
CreatedNow == {e \in remote : e.run = runs}
CreatedDates == {DayOf(e.start) : e \in CreatedNow}
RecordedDates ==
    {r.date : r \in {x \in timeEntries : x.clockifyId \in {e.id : e \in CreatedNow}}}
BatchDates(index) ==
    {BatchOf(missingDates, index, BATCH_SIZE)[i].date :
        i \in DOMAIN BatchOf(missingDates, index, BATCH_SIZE)}

\* C1: when the existence check of one date fails, the run is not aborted: it
\* ends only after every other eligible date has got the result of its check.
C1_CheckFailureIsolated ==
    (pc = "exited" /\ obs.checkFailed # {})
        => \A d \in Range(datesToCheck) \ obs.checkFailed : d \in CheckedSet

\* C2: in the creation phase the failure of some dates' tasks never ends the
\* run before the summary, and when the summary is printed every missing date
\* whose task met no error has its remote entry and its ledger record and is
\* not reported as failed; the failed dates are exactly the ones that met an
\* error and addedCount counts the others.
C2_CreateFailuresIsolated ==
    /\ (pc = "exited" /\ Len(missingDates) > 0) => obs.summary
    /\ obs.summary =>
         /\ \A d \in MissingSet \ obs.errored :
                d \in CreatedDates /\ d \in RecordedDates /\ d \notin obs.failed
         /\ obs.failed = obs.errored
         /\ addedCount = Cardinality(MissingSet \ obs.errored)

C2_Witness ==
    /\ obs.summary
    /\ NumBatches(missingDates, BATCH_SIZE) >= 2
    /\ \E d \in BatchDates(0) : d \in obs.errored /\ d \notin CreatedDates
    /\ \E d \in BatchDates(0) : d \in RecordedDates
    /\ \E d \in BatchDates(1) : d \in RecordedDates

C4_SecondRunCreatesNothing ==
    obs.prevFill => \A e \in remote : ~(e.run = runs /\ e.by = "fill")

\* C4 amended: an entry created by a run is the only entry of its date, and a
\* later run's existence check answers false only for a date that holds no
\* entry of an earlier run: the second run creates entries only for dates the
\* first run left without one.
C4_NoSecondEntryPerDate ==
    /\ \A e \in remote : e.run >= 1 =>
           \A o \in remote : DayOf(o.start) = DayOf(e.start) => o = e
    /\ \A d \in obs.checkedFalse :
           \A e \in remote : e.run < runs => DayOf(e.start) # d

C4_Witness ==
    /\ runs = 2
    /\ obs.prevFill
    /\ pc = "exited"
    /\ exitCode = 0
    /\ \E e \in remote : e.run = 1 /\ e.by = "fill"
           /\ obs.checks[DayOf(e.start)] = 1 /\ obs.posts[DayOf(e.start)] = 0
    /\ \E e \in remote : e.run = 2 /\ e.by = "fill"

\* C5: concurrent callers before the first resolution share one resolve
\* request: one GET /user is sent and the cached user id is written once.
C5_SingleResolve == obs.userRequests <= 1 /\ obs.userWrites <= 1

\* C6: no create request whose end is not after its start is sent, and no
\* ledger record of such an entry is written.
C6_InvalidRangeRejected ==
    /\ ~obs.invalidPost
    /\ \A r \in timeEntries : r.durationMinutes > 0

\* C7: once a remote call has answered 401 the run has ended with a fatal
\* error and no request was sent after it.
C7_AuthFailureAborts ==
    obs.authSeen => (pc = "exited" /\ exitCode = 1 /\ ~obs.afterAuth)

\* C8: once a ledger operation has raised a storage error the run has ended
\* with a fatal error.
C8_StorageErrorFatal ==
    obs.storageErr => (pc = "exited" /\ exitCode = 1)

\* C9: the run ends with a non-zero exit code exactly when an authentication
\* failure, an unreadable or unusable configuration, or a storage failure
\* occurred.
C9_ExitCode ==
    pc = "exited" =>
        (exitCode = 1 <=>
            (obs.authSeen \/ obs.storageErr \/ ~configFile.readable \/ ~config.clockify))

\* C10: the description of today's entry is the covering assignment's if one
\* exists, otherwise the issue tracker's first title if the lookup gave one,
\* otherwise 'General work'.
C10_TodayDescription ==
    obs.todayDescription # "" =>
        obs.todayDescription =
            (IF obs.covering # "" THEN obs.covering
             ELSE IF obs.jira = "title" THEN "J" ELSE "General work")

\* the derived end date of assignment a: the day before the next start date
\* in the ledger, today for the assignment that starts last
DerivedEnd(rows, a, now) ==
    LET later == {r.startDate : r \in {x \in rows : x.startDate > a.startDate}}
    IN  IF later = {} THEN now
        ELSE (CHOOSE m \in later : \A o \in later : m <= o) - 1

\* C12: getTaskForDate(d) returns an assignment only if its start date is not
\* after d and d is not after its derived end date, and returns null only if
\* no assignment of the ledger satisfies this.
C12_CoveringWithinRange ==
    call.op = "getTaskForDate" =>
        IF call.result = NoTask
        THEN \A a \in tasks :
                 ~(a.startDate <= call.date /\ call.date <= DerivedEnd(tasks, a, today))
        ELSE /\ call.result.startDate <= call.date
             /\ call.date <= call.result.endDate

\* C13: after any sequence of addTask and deleteTask calls the ledger holds at
\* most one row per start date; addTask on a start date that has a row
\* overwrites project and description, returns that row's id and adds no row;
\* on a new start date it adds one row; no other row changes.
C13_OneRowPerStartDate ==
    /\ \A a \in tasks : \A b \in tasks : a.startDate = b.startDate => a = b
    /\ call.op = "addTask" =>
         /\ \E r \in tasks :
                /\ r.startDate = call.date
                /\ r.id = call.result
                /\ r.description = call.data
                /\ r.project = (IF call.data = "A" THEN "P" ELSE "Q")
         /\ {r \in tasks : r.startDate # call.date}
                = {r \in call.pre : r.startDate # call.date}
         /\ IF \E o \in call.pre : o.startDate = call.date
            THEN /\ Cardinality(tasks) = Cardinality(call.pre)
                 /\ \E o \in call.pre : o.startDate = call.date /\ o.id = call.result
            ELSE Cardinality(tasks) = Cardinality(call.pre) + 1
    /\ call.op = "deleteTask" =>
         tasks = {r \in call.pre : r.startDate # call.date}

C13_Witness ==
    /\ call.op = "addTask"
    /\ \E o \in call.pre : o.startDate = call.date /\ o.description # call.data
    /\ Cardinality(tasks) >= 2
    /\ nextTaskId - 2 > Cardinality(tasks)

\* C14: getTasks returns every row of the ledger once, in ascending order of
\* start date, the end date of each row but the last being the day before the
\* start date of the next row and the end date of the last row being today.
C14_DerivedEndDates ==
    call.op = "getTasks" =>
        LET list == call.result
        IN  /\ Len(list) = Cardinality(tasks)
            /\ \A r \in tasks : \E i \in 1 .. Len(list) :
                   /\ list[i].id = r.id
                   /\ list[i].startDate = r.startDate
                   /\ list[i].description = r.description
            /\ \A i \in 1 .. (Len(list) - 1) :
                   /\ list[i].startDate < list[i + 1].startDate
                   /\ list[i].endDate = list[i + 1].startDate - 1
            /\ Len(list) > 0 => list[Len(list)].endDate = today

C14_Witness ==
    /\ call.op = "getTasks"
    /\ Len(call.result) = 3
    /\ \E i \in 1 .. 2 : call.result[i].id > call.result[i + 1].id

\* C18: isBusinessDay(d) is true exactly when d is a Monday to Friday and the
\* calendar lookup does not give a holiday for d; a lookup that throws counts
\* as no holiday and the call still returns a value.
C18_BusinessDay ==
    call.op = "isBusinessDay" =>
        call.result = (DayOfWeek(call.date) \in 1 .. 5 /\ call.data # "list")

C18_Witness ==
    /\ call.op = "isBusinessDay"
    /\ call.data = "throws"
    /\ call.result = TRUE

\* the description the resolver's priority order gives date d: the covering
\* assignment's, else the pre-fetched title, else the literal
FillEntries == {e \in remote : e.by = "fill" /\ e.run = runs}
ExpectedFillDescription(d) ==
    LET covering == {a \in tasks : a.startDate <= d /\ d <= DerivedEnd(tasks, a, today)}
    IN  IF covering # {} THEN (CHOOSE a \in covering : TRUE).description
        ELSE IF obs.prefetch = "title" THEN "J"
        ELSE "General work"

LastBusinessDayOfMonth(hol, date) ==
    LET business == {d \in startOfMonth(date) .. endOfMonth(date) :
                        DayOfWeek(d) \in 1 .. 5 /\ d \notin hol}
    IN  IF business = {} THEN 0 - 1
        ELSE CHOOSE m \in business : \A o \in business : o <= m

\* C15: a run that reaches its end generates the report exactly when today is
\* the last business day of its month (weekday and no holiday) and a report
\* directory is configured.
C15_ReportOnLastBusinessDay ==
    (pc = "exited" /\ exitCode = 0 /\ config.clockify /\ ~obs.skipped) =>
        (obs.report <=>
            (config.reportDir /\ today = LastBusinessDayOfMonth(holidays, today)))

\* C16: a run on a day that is no business day still performs the gap-fill;
\* only today's entry is skipped.
C16_GapFillOnSkippedDay ==
    (pc = "exited" /\ exitCode = 0 /\ obs.skipped) => obs.fillDone

JiraFailureStep ==
    /\ (obs.prefetch # "error" /\ obs'.prefetch = "error") =>
           (pc' = "createStart" /\ jiraTaskTitle' = "" /\ exitCode' = exitCode)
    /\ (obs.jira # "error" /\ obs'.jira = "error") =>
           (pc' = "todayCatch" /\ exitCode' = exitCode)

\* C17: a failed issue-tracker lookup never ends the run: after a failed
\* pre-fetch the creation phase starts with no title, after a failed lookup
\* for today the catch block runs and the exit code is untouched; every entry
\* a run creates has a description.
C17_JiraFailureNotFatal ==
    /\ [](\A e \in remote : e.run >= 1 => e.description # "")
    /\ [][JiraFailureStep]_vars

C17_Witness ==
    /\ pc = "exited"
    /\ exitCode = 0
    /\ obs.prefetch = "error"
    /\ obs.jira = "error"
    /\ obs.posts[today] = 1
    /\ FillEntries # {}

\* C19: the candidate window is the days from the first day of the previous
\* month to yesterday in ascending order, today excluded, and the dates the
\* gap-fill checks are the business days of this window.
C19_CandidateWindow ==
    LET window == CandidateWindow(today)
        first == ((today \div DaysPerMonth) - 1) * DaysPerMonth
    IN  /\ Len(window) = today - first
        /\ \A i \in 1 .. Len(window) : window[i] = first + i - 1
        /\ pc \in {"checkStart", "checking", "gaps", "jiraWait", "createStart",
                    "creating", "today"} =>
               /\ Range(datesToCheck) =
                      {d \in first .. (today - 1) :
                          DayOfWeek(d) \in 1 .. 5 /\ d \notin holidays}
               /\ \A i \in 1 .. (Len(datesToCheck) - 1) :
                      datesToCheck[i] < datesToCheck[i + 1]

C19_Witness ==
    /\ today = startOfMonth(today)
    /\ pc = "checking"
    /\ Len(datesToCheck) >= 2

\* C20: once the gaps are computed the missing dates are the eligible dates
\* whose existence check answered false, in ascending order; when there are
\* none the gap-fill is over, with no issue-tracker lookup and no create
\* request for a date of the window.
C20_MissingSet ==
    obs.gapsDone =>
        /\ MissingSet = obs.checkedFalse \cap Range(datesToCheck)
        /\ \A i \in 1 .. (Len(missingDates) - 1) :
               missingDates[i].date < missingDates[i + 1].date
        /\ Len(missingDates) = 0 =>
               /\ obs.fillDone
               /\ obs.prefetch = "none"
               /\ \A d \in Days \ {today} : obs.posts[d] = 0

C20_Witness ==
    /\ obs.gapsDone
    /\ Len(entryResults) = 3
    /\ Len(missingDates) = 2
    /\ entryResults[2].hasEntry
    /\ pc = "exited"
    /\ exitCode = 0

C20_WitnessNoGaps ==
    /\ obs.gapsDone
    /\ Len(entryResults) >= 2
    /\ Len(missingDates) = 0
    /\ pc = "exited"
    /\ exitCode = 0

\* the ledger records written for dates of the missing set
FillRecords == {r \in timeEntries : r.date \in MissingSet}

\* C21: the counts of the summary satisfy created + failed = gaps found <=
\* dates checked, and created is the number of ledger records the creation
\* phase wrote.
C21_SummaryCounts ==
    obs.summary =>
        /\ addedCount + Cardinality(obs.failed) = Len(missingDates)
        /\ Len(missingDates) <= Len(datesToCheck)
        /\ addedCount = Cardinality(FillRecords)

\* C22: an existence check that failed with a transient error is issued again.
C22_TransientRetried ==
    (pc = "exited" /\ ~obs.authSeen) =>
        \A d \in obs.checkFailed : obs.checks[d] >= 2

\* the phases of fillMissingEntries in their order; 6 is what follows it
PhaseOf(p) ==
    CASE p \in {"start", "init"} -> 0
      [] p = "fill" -> 1
      [] p \in {"checkStart", "checking"} -> 2
      [] p = "gaps" -> 3
      [] p = "jiraWait" -> 4
      [] p \in {"createStart", "creating"} -> 5
      [] OTHER -> 6

PhaseForward == PhaseOf(pc') >= PhaseOf(pc)

\* C24: the phases of a run never go backward, and when a create request has
\* been issued every existence check of every check batch has completed, the
\* gaps are computed and the pre-fetch has been answered; at the summary no
\* creation task is left.
C24_PhaseOrder ==
    /\ [][PhaseForward]_vars
    /\ []((\E d \in Days : obs.posts[d] > 0) =>
             /\ Len(entryResults) = Len(datesToCheck)
             /\ chk = NoTasks
             /\ obs.gapsDone
             /\ obs.prefetch # "issued")
    /\ [](obs.summary => crt = NoTasks)

C24_Witness ==
    /\ pc = "creating"
    /\ \E d \in Days : obs.posts[d] > 0
    /\ Len(datesToCheck) > CHECK_BATCH_SIZE
    /\ obs.prefetch = "title"

\* the positions of the elements of batch `index` in a list cut into batches
BatchPositions(list, index, size) ==
    {i \in DOMAIN list : i > index * size /\ i <= (index + 1) * size}

\* C25: at most CHECK_BATCH_SIZE existence checks and at most BATCH_SIZE
\* create operations are in flight; the operations in flight belong to the
\* current batch and every operation of the earlier batches has completed.
C25_BoundedBatches ==
    /\ Cardinality(DOMAIN chk) <= CHECK_BATCH_SIZE
    /\ Cardinality(DOMAIN crt) <= BATCH_SIZE
    /\ DOMAIN chk \subseteq
           {datesToCheck[i] : i \in BatchPositions(datesToCheck, batchIndex, CHECK_BATCH_SIZE)}
    /\ DOMAIN crt \subseteq
           {missingDates[i].date : i \in BatchPositions(missingDates, batchIndex, BATCH_SIZE)}
    /\ pc \in {"checkStart", "checking"} =>
           Len(entryResults) = batchIndex * CHECK_BATCH_SIZE
    /\ pc \in {"createStart", "creating"} =>
           addedCount + Cardinality(obs.failed) = batchIndex * BATCH_SIZE

C25_Witness ==
    /\ pc = "creating"
    /\ batchIndex = 1
    /\ \E d \in DOMAIN crt : ~CrtDone(crt[d])
    /\ Len(datesToCheck) > CHECK_BATCH_SIZE
    /\ Len(missingDates) > BATCH_SIZE

\* C26: a run performs at most one issue-tracker lookup.
C26_SingleLookup == obs.jiraLookups <= 1

\* C28: at the end of a completed run the dates with a ledger record are the
\* dates whose create request was answered with success, each record carries
\* the id of that remote entry, and none of these dates is reported as failed.
C28_RecordsMatchCreates ==
    (pc = "exited" /\ exitCode = 0 /\ config.clockify /\ ~obs.skipped) =>
        /\ {r.date : r \in timeEntries} = obs.createOk
        /\ \A r \in timeEntries :
               \E e \in CreatedNow : e.id = r.clockifyId /\ DayOf(e.start) = r.date
        /\ obs.createOk \cap obs.failed = {}

\* C29: no step of a run changes the task assignments of the ledger.
C29_RunReadsTasksOnly == [][tasks' = tasks]_vars

\* a step of the client seen from its cache
CachedUserIdStep ==
    /\ ~needsResolve(userId) =>
           /\ userId' = userId
           /\ obs'.userRequests = obs.userRequests
           /\ call'.data = "entries"
    /\ needsResolve(userId) =>
           /\ obs'.userRequests = obs.userRequests + 1
           /\ userId' \in {userId, UserIdValue}
           /\ (userId' = userId) <=> (call'.data = "user")
           /\ (userId' = UserIdValue) <=> (call'.data = "user+entries")

\* C30: the client resolves no user id when it is constructed; once a
\* resolution has succeeded every later operation uses the cached id without a
\* further request and the cached value never changes; a resolution that fails
\* caches nothing and the next operation resolves again.
C30_CachedUserId ==
    /\ [](call = NoCall => (needsResolve(userId) /\ obs.userRequests = 0))
    /\ [](obs.userWrites <= 1 /\ (needsResolve(userId) <=> obs.userWrites = 0))
    /\ [][CachedUserIdStep]_vars

C30_Witness ==
    /\ userId = UserIdValue
    /\ call.data = "entries"
    /\ call.result = TRUE
    /\ obs.userRequests = 2

\* the working hours a client constructed from the saved configuration uses
EffectiveStart == defaultStartTime(loadConfig(configFile))
EffectiveEnd == defaultEndTime(loadConfig(configFile))

\* C23: after any sequence of `config set` commands from an empty
\* configuration the effective working hours have start before end and last
\* at least one hour, and the last command was accepted only if it kept them so.
C23_EffectiveHoursValid ==
    /\ TotalMinutes(EffectiveStart) < TotalMinutes(EffectiveEnd)
    /\ TotalMinutes(EffectiveEnd) - TotalMinutes(EffectiveStart) >= 60

\* C27: whatever the interleaving of a run's upsert and a `tasks add` for the
\* same start date, the ledger holds at most one assignment row per start date.
C27_ConcurrentUpsertOneRow ==
    \A startDate \in Days \cup AssignDates :
        Cardinality({r \in tasks : r.startDate = startDate}) <= 1

====
